---- MODULE Spec2Model ----
(***************************************************************************)
(* Model of scripts/setup_project.py: the project materializer.  A run     *)
(* takes a package name, a project type and a dry-run flag and performs a  *)
(* fixed sequence of filesystem operations in the working directory.       *)
(*                                                                         *)
(* Names and path components are sequences of one-character strings, so    *)
(* that str.isidentifier and str.replace("_", "-") are computed character  *)
(* by character.  A path is a sequence of components below the working     *)
(* directory; the filesystem is a function from the existing paths to      *)
(* their nodes.                                                            *)
(***************************************************************************)
EXTENDS Integers, Sequences, FiniteSets, TLC

VARIABLES fs, pre, args, verdict, runs, pc, perr, ptype, wrote

vars == <<fs, pre, args, verdict, runs, pc, perr, ptype, wrote>>

(* ---------------------------- bounds ----------------------------------- *)

MaxLines == 2
MaxRuns == 2

(* ------------------------- path components ----------------------------- *)

SrcName == <<"s", "r", "c">>
TestsName == <<"t", "e", "s", "t", "s">>
CoreName == <<"c", "o", "r", "e">>
AppName == <<"a", "p", "p">>
InfraName == <<"i", "n", "f", "r", "a">>
UnitName == <<"u", "n", "i", "t">>
IntegrationName == <<"i", "n", "t", "e", "g", "r", "a", "t", "i", "o", "n">>
InitPy == <<"_", "_", "i", "n", "i", "t", "_", "_", ".", "p", "y">>
MainDunderPy == <<"_", "_", "m", "a", "i", "n", "_", "_", ".", "p", "y">>
ApiPy == <<"a", "p", "i", ".", "p", "y">>
CliPy == <<"c", "l", "i", ".", "p", "y">>
MainPy == <<"m", "a", "i", "n", ".", "p", "y">>
HealthcheckPy == <<"h", "e", "a", "l", "t", "h", "c", "h", "e", "c", "k", ".", "p", "y">>
PyprojectToml == <<"p", "y", "p", "r", "o", "j", "e", "c", "t", ".", "t", "o", "m", "l">>
GeminiMd == <<"G", "E", "M", "I", "N", "I", ".", "m", "d">>
TemplateProject == <<"t", "e", "m", "p", "l", "a", "t", "e", "_", "p", "r", "o", "j", "e", "c", "t">>
TestBasicPy == <<"t", "e", "s", "t", "_", "b", "a", "s", "i", "c", ".", "p", "y">>

PROJECT_TYPES == {"library", "cli", "service"}

(* ------------------------- package names ------------------------------- *)

Letters ==
  {"a", "b", "c", "d", "e", "f", "g", "h", "i", "j", "k", "l", "m",
   "n", "o", "p", "q", "r", "s", "t", "u", "v", "w", "x", "y", "z"}

Digits == {"0", "1", "2", "3", "4", "5", "6", "7", "8", "9"}

(* The values --name takes in the model: an identifier with an            *)
(* underscore, a reserved word, a name starting with a digit, a name with  *)
(* a hyphen, and the name of the template placeholder package.             *)
Names ==
  { <<"a", "_", "s">>, <<"a", "s">>, <<"1", "a">>, <<"a", "-", "s">>,
    TemplateProject }

(* str.isidentifier(): non-empty, first character a letter or underscore, *)
(* the others letters, digits or underscores.  No keyword test.            *)
isidentifier(s) ==
  /\ Len(s) > 0
  /\ s[1] \in Letters \cup {"_"}
  /\ \A i \in 1..Len(s) : s[i] \in Letters \cup Digits \cup {"_"}

(* package_name.replace("_", "-") *)
replace_underscores(s) ==
  [i \in 1..Len(s) |-> IF s[i] = "_" THEN "-" ELSE s[i]]

(* ---------------------------- filesystem ------------------------------- *)

Ln(k, v) == [key |-> k, val |-> v]

DirNode == [kind |-> "dir", text |-> <<>>]

FileNode(lines) == [kind |-> "file", text |-> lines]

Exists(f, path) == path \in DOMAIN f

IsPrefix(a, b) == Len(a) <= Len(b) /\ SubSeq(b, 1, Len(a)) = a

Parent(path) == SubSeq(path, 1, Len(path) - 1)

IsDir(f, path) == Exists(f, path) /\ f[path].kind = "dir"

Ancestors(path) == {SubSeq(path, 1, n) : n \in 0..(Len(path) - 1)}

(* Path.mkdir(parents=True, exist_ok=True) *)
Mkdir(f, path) ==
  [q \in DOMAIN f \cup Ancestors(path) \cup {path} |->
     IF q \in DOMAIN f THEN f[q] ELSE DirNode]

(* Path.write_text(content): create or truncate, then write. *)
WriteText(f, path, lines) ==
  [q \in DOMAIN f \cup {path} |-> IF q = path THEN FileNode(lines) ELSE f[q]]

(* Path.touch(exist_ok=True): create an empty file unless the path exists. *)
Touch(f, path) ==
  [q \in DOMAIN f \cup {path} |-> IF q \in DOMAIN f THEN f[q] ELSE FileNode(<<>>)]

(* Path.unlink() *)
Unlink(f, path) == [q \in DOMAIN f \ {path} |-> f[q]]

(* shutil.rmtree(path): the directory and everything below it. *)
Rmtree(f, path) == [q \in {r \in DOMAIN f : ~IsPrefix(path, r)} |-> f[q]]

SrcPkg(p) == <<SrcName, p>>

TestsRoot == <<TestsName>>

LegacySrc == <<SrcName, TemplateProject>>

LegacyTest == <<TestsName, TestBasicPy>>

PyprojectPath == <<PyprojectToml>>

ManifestPath == <<GeminiMd>>

(* ------------------------- seed file contents -------------------------- *)

ApiContent == <<Ln("# Public library API", <<>>)>>

MainDunderContent(p) ==
  << Ln("from {package_name}.app.cli import main", p),
     Ln("", <<>>),
     Ln("if __name__ == \"__main__\":", <<>>),
     Ln("    raise SystemExit(main())", <<>>) >>

CliContent ==
  << Ln("def main() -> int:", <<>>),
     Ln("    print(\"CLI entrypoint\")", <<>>),
     Ln("    return 0", <<>>) >>

MainContent ==
  << Ln("def run() -> None:", <<>>),
     Ln("    print(\"Service starting...\")", <<>>) >>

HealthcheckContent ==
  << Ln("def check() -> bool:", <<>>),
     Ln("    return True", <<>>) >>

(* ------------------------- the operations ------------------------------ *)
(* A run in progress is a record [fs, err]; err = "ok" until die() is      *)
(* called, and a dead run performs no further operation.                   *)

die(st, kind) == [st EXCEPT !.err = kind]

(* touch_init without its dry_run test *)
touch_init_ignoring_dry_run(st, path, dry_run) ==
  IF st.err # "ok" THEN st
  ELSE IF Exists(st.fs, path) THEN st
  ELSE [st EXCEPT !.fs = Touch(Mkdir(st.fs, path), path \o <<InitPy>>)]

touch_init(st, path, dry_run) ==
  IF st.err # "ok" THEN st
  ELSE IF Exists(st.fs, path) THEN st
  ELSE IF dry_run THEN st
  ELSE [st EXCEPT !.fs = Touch(Mkdir(st.fs, path), path \o <<InitPy>>)]

(* write_text into a directory that does not exist raises                  *)
(* FileNotFoundError, which nothing catches: the run ends there.           *)
create_file(st, path, content, dry_run) ==
  IF st.err # "ok" THEN st
  ELSE IF Exists(st.fs, path) THEN die(st, "RefuseOverwrite")
  ELSE IF dry_run THEN st
  ELSE IF ~IsDir(st.fs, Parent(path)) THEN die(st, "FileNotFoundError")
  ELSE [st EXCEPT !.fs = WriteText(st.fs, path, content)]

(* re.sub over the file with the MULTILINE flag and no count argument:     *)
(* every line that starts with a quoted name assignment has its value      *)
(* replaced; the rest of the text is copied.                               *)
NameSub(lines, new_name) ==
  [i \in 1..Len(lines) |->
     IF lines[i].key = "name" THEN Ln("name", new_name) ELSE lines[i]]

update_pyproject_name(st, new_name, dry_run) ==
  IF st.err # "ok" THEN st
  ELSE IF ~Exists(st.fs, PyprojectPath) THEN st
  ELSE IF dry_run THEN st
  ELSE LET content == st.fs[PyprojectPath].text
           new_content == NameSub(content, new_name)
       IN IF content = new_content THEN st
          ELSE [st EXCEPT !.fs = WriteText(st.fs, PyprojectPath, new_content)]

(* cleanup_legacy without the removal of the placeholder test *)
cleanup_legacy_src_only(st, dry_run) ==
  IF st.err # "ok" THEN st
  ELSE IF Exists(st.fs, LegacySrc) /\ ~dry_run
       THEN [st EXCEPT !.fs = Rmtree(st.fs, LegacySrc)] ELSE st

cleanup_legacy(st, dry_run) ==
  IF st.err # "ok" THEN st
  ELSE LET f1 == IF Exists(st.fs, LegacySrc) /\ ~dry_run
                 THEN Rmtree(st.fs, LegacySrc) ELSE st.fs
           f2 == IF Exists(f1, LegacyTest) /\ ~dry_run
                 THEN Unlink(f1, LegacyTest) ELSE f1
       IN [st EXCEPT !.fs = f2]

MkdirIfAbsent(f, path, dry_run) ==
  IF ~Exists(f, path) /\ ~dry_run THEN Mkdir(f, path) ELSE f

(* create_tests_layout with the loop over the test types cut short *)
create_tests_layout_unit_only(st, project_type, dry_run) ==
  IF st.err # "ok" THEN st
  ELSE [st EXCEPT !.fs = MkdirIfAbsent(MkdirIfAbsent(st.fs, TestsRoot, dry_run),
                                       TestsRoot \o <<UnitName>>, dry_run)]

create_tests_layout(st, project_type, dry_run) ==
  IF st.err # "ok" THEN st
  ELSE LET f1 == MkdirIfAbsent(st.fs, TestsRoot, dry_run)
           f2 == MkdirIfAbsent(f1, TestsRoot \o <<UnitName>>, dry_run)
           f3 == MkdirIfAbsent(f2, TestsRoot \o <<IntegrationName>>, dry_run)
       IN [st EXCEPT !.fs = f3]

PlaceholderKey == "|-- src/  # Source code (populated by setup script)"

ARCH_DOCS(project_type) ==
  CASE project_type = "library" -> "|-- src/ {package_name}/ core/api.py __init__.py"
    [] project_type = "cli" -> "|-- src/ {package_name}/ app/cli.py core/ __main__.py"
    [] project_type = "service" -> "|-- src/ {package_name}/ app/main.py core/ infra/ __init__.py"

ManifestSub(lines, package_name, project_type) ==
  [i \in 1..Len(lines) |->
     IF lines[i].key = PlaceholderKey
     THEN Ln(ARCH_DOCS(project_type), package_name) ELSE lines[i]]

update_gemini_manifest(st, package_name, project_type, dry_run) ==
  IF st.err # "ok" THEN st
  ELSE IF ~Exists(st.fs, ManifestPath) THEN st
  ELSE IF dry_run THEN st
  ELSE LET content == st.fs[ManifestPath].text
       IN IF \E i \in 1..Len(content) : content[i].key = PlaceholderKey
          THEN [st EXCEPT !.fs = WriteText(st.fs, ManifestPath,
                                   ManifestSub(content, package_name, project_type))]
          ELSE st

(* the existence test applied to the package marker instead of the directory *)
check_target_marker(st, src_pkg) ==
  IF st.err # "ok" THEN st
  ELSE IF Exists(st.fs, src_pkg \o <<InitPy>>) THEN die(st, "AlreadyExists") ELSE st

(* the existence test applied to src/ instead of src/<package_name> *)
check_target_parent(st, src_pkg) ==
  IF st.err # "ok" THEN st
  ELSE IF Exists(st.fs, Parent(src_pkg)) THEN die(st, "AlreadyExists") ELSE st

check_target(st, src_pkg) ==
  IF st.err # "ok" THEN st
  ELSE IF Exists(st.fs, src_pkg) THEN die(st, "AlreadyExists") ELSE st

check_name(st, package_name) ==
  IF st.err # "ok" THEN st
  ELSE IF ~isidentifier(package_name) THEN die(st, "InvalidName") ELSE st

(* ------------------------- the program --------------------------------- *)
(* main() is a straight line of calls; each call is one step of a run.     *)

Op(name, path, text) == [op |-> name, path |-> path, text |-> text]

(* create_src_layout without the core package *)
create_src_layout_without_core(src_pkg, project_type) ==
  << Op("touch_init", src_pkg, <<>>) >>
  \o (IF project_type \in {"cli", "service"}
      THEN <<Op("touch_init", src_pkg \o <<AppName>>, <<>>)>> ELSE <<>>)
  \o (IF project_type = "service"
      THEN <<Op("touch_init", src_pkg \o <<InfraName>>, <<>>)>> ELSE <<>>)

create_src_layout(src_pkg, project_type) ==
  << Op("touch_init", src_pkg, <<>>),
     Op("touch_init", src_pkg \o <<CoreName>>, <<>>) >>
  \o (IF project_type \in {"cli", "service"}
      THEN <<Op("touch_init", src_pkg \o <<AppName>>, <<>>)>> ELSE <<>>)
  \o (IF project_type = "service"
      THEN <<Op("touch_init", src_pkg \o <<InfraName>>, <<>>)>> ELSE <<>>)

create_type_specific_files(src_pkg, project_type, package_name) ==
  (IF project_type = "library"
   THEN <<Op("create_file", src_pkg \o <<CoreName, ApiPy>>, ApiContent)>>
   ELSE <<>>)
  \o (IF project_type = "cli"
      THEN << Op("create_file", src_pkg \o <<MainDunderPy>>,
                 MainDunderContent(package_name)),
              Op("create_file", src_pkg \o <<AppName, CliPy>>, CliContent) >>
      ELSE <<>>)
  \o (IF project_type = "service"
      THEN << Op("create_file", src_pkg \o <<AppName, MainPy>>, MainContent),
              Op("create_file", src_pkg \o <<InfraName, HealthcheckPy>>,
                 HealthcheckContent) >>
      ELSE <<>>)

(* main without the test that the target directory is absent *)
main_without_target_check(package_name, project_type) ==
  << Op("check_name", <<>>, <<>>),
     Op("update_pyproject_name", <<>>, <<>>) >>
  \o create_src_layout(SrcPkg(package_name), project_type)
  \o create_type_specific_files(SrcPkg(package_name), project_type, package_name)
  \o << Op("create_tests_layout", <<>>, <<>>),
        Op("cleanup_legacy", <<>>, <<>>),
        Op("update_gemini_manifest", <<>>, <<>>) >>

(* setup_environment and remove_git_remote run external tools (only when   *)
(* dry_run is false) and touch nothing of the modelled tree; they are not  *)
(* steps here.                                                             *)
main(package_name, project_type) ==
  << Op("check_target", SrcPkg(package_name), <<>>),
     Op("check_name", <<>>, <<>>),
     Op("update_pyproject_name", <<>>, <<>>) >>
  \o create_src_layout(SrcPkg(package_name), project_type)
  \o create_type_specific_files(SrcPkg(package_name), project_type, package_name)
  \o << Op("create_tests_layout", <<>>, <<>>),
        Op("cleanup_legacy", <<>>, <<>>),
        Op("update_gemini_manifest", <<>>, <<>>) >>

Exec(st, o, package_name, project_type, dry_run) ==
  CASE o.op = "check_target" -> check_target(st, o.path)
    [] o.op = "check_name" -> check_name(st, package_name)
    [] o.op = "update_pyproject_name" ->
         update_pyproject_name(st, replace_underscores(package_name), dry_run)
    [] o.op = "touch_init" -> touch_init(st, o.path, dry_run)
    [] o.op = "create_file" -> create_file(st, o.path, o.text, dry_run)
    [] o.op = "create_tests_layout" -> create_tests_layout(st, project_type, dry_run)
    [] o.op = "cleanup_legacy" -> cleanup_legacy(st, dry_run)
    [] o.op = "update_gemini_manifest" ->
         update_gemini_manifest(st, package_name, project_type, dry_run)

RECURSIVE RunFrom(_, _, _, _, _, _)
RunFrom(st, ops, k, package_name, project_type, dry_run) ==
  IF k > Len(ops) THEN st
  ELSE RunFrom(Exec(st, ops[k], package_name, project_type, dry_run),
               ops, k + 1, package_name, project_type, dry_run)

(* One whole invocation from filesystem f: the final filesystem and the    *)
(* verdict ("ok", or the error that ended the run).                        *)
materialize(f, package_name, project_type, dry_run) ==
  RunFrom([fs |-> f, err |-> "ok"], main(package_name, project_type), 1,
          package_name, project_type, dry_run)

(* ------------------------- starting filesystems ------------------------ *)

EmptyFS == [q \in {<<>>} |-> DirNode]

OldName == <<"o", "l", "d">>

ConfigLines == {Ln("name", OldName), Ln("version", OldName)}

ConfigTexts == [1..MaxLines -> ConfigLines]

PreText == <<Ln("pre-existing", <<>>)>>

(* The seed files of all project types, in the order main creates them. *)
AllSeedPaths(p) ==
  << SrcPkg(p) \o <<CoreName, ApiPy>>,
     SrcPkg(p) \o <<MainDunderPy>>,
     SrcPkg(p) \o <<AppName, CliPy>>,
     SrcPkg(p) \o <<AppName, MainPy>>,
     SrcPkg(p) \o <<InfraName, HealthcheckPy>> >>

PreNames == {<<"a", "_", "s">>, <<"1", "a">>}

(* A package directory left by an earlier use: <<q, 0>> is the bare        *)
(* directory src/q, <<q, k>> the directory holding the k-th seed file.     *)
PrePackages == {qk \in PreNames \X (0..5) : qk[2] = 0 \/ isidentifier(qk[1])}

WithConfig(f, has, text) ==
  IF has THEN WriteText(f, PyprojectPath, text) ELSE f

WithManifest(f, has) ==
  IF has THEN WriteText(f, ManifestPath, <<Ln(PlaceholderKey, <<>>)>>) ELSE f

WithLegacySrc(f, has) ==
  IF has THEN Touch(Mkdir(f, LegacySrc), LegacySrc \o <<InitPy>>) ELSE f

(* tests: 0 = no tests/ directory, 1 = an empty one, 2 = with test_basic.py *)
WithTests(f, k) ==
  IF k = 0 THEN f
  ELSE IF k = 1 THEN Mkdir(f, TestsRoot)
  ELSE WriteText(Mkdir(f, TestsRoot), LegacyTest, PreText)

WithPackage(f, has, q, k) ==
  IF ~has THEN f
  ELSE IF k = 0 THEN Mkdir(f, SrcPkg(q))
  ELSE WriteText(Mkdir(f, Parent(AllSeedPaths(q)[k])), AllSeedPaths(q)[k], PreText)

(* The template's root files (pyproject.toml and GEMINI.md) are present    *)
(* together or absent together.                                            *)
InitFS ==
  { WithPackage(WithTests(WithLegacySrc(WithManifest(WithConfig(
        Mkdir(EmptyFS, <<SrcName>>), hc, ct), hc), hl), tk), hp, qk[1], qk[2]) :
      hc \in BOOLEAN, ct \in ConfigTexts, hl \in BOOLEAN,
      tk \in 0..2, hp \in BOOLEAN, qk \in PrePackages }

NoArgs == [p |-> <<>>, t |-> "library", dry |-> FALSE]

Procs == {1, 2}

(* ------------------------- sequential runs ----------------------------- *)

Init ==
  /\ fs \in InitFS
  /\ pre = fs
  /\ args = NoArgs
  /\ verdict = "none"
  /\ runs = 0
  /\ pc = [i \in Procs |-> 0]
  /\ perr = [i \in Procs |-> "none"]
  /\ ptype = [i \in Procs |-> "library"]
  /\ wrote = [i \in Procs |-> FALSE]

Materialize ==
  /\ runs < MaxRuns
  /\ \E p \in Names, t \in PROJECT_TYPES, dry \in BOOLEAN :
       LET r == materialize(fs, p, t, dry)
       IN /\ fs' = r.fs
          /\ pre' = fs
          /\ args' = [p |-> p, t |-> t, dry |-> dry]
          /\ verdict' = r.err
          /\ runs' = runs + 1
  /\ UNCHANGED <<pc, perr, ptype, wrote>>

Next == Materialize

Spec == Init /\ [][Next]_vars

(* ------------------------- concurrent runs ----------------------------- *)
(* Two real invocations for the same package name, from the same working   *)
(* directory.  Nothing in the script takes a lock: the processes take      *)
(* their steps in any order.                                               *)

RaceNames == {<<"a", "_", "s">>, TemplateProject}

RaceFS ==
  { WithTests(WithLegacySrc(WithManifest(WithConfig(
        Mkdir(EmptyFS, <<SrcName>>), TRUE, <<Ln("name", OldName)>>), TRUE), hl), tk) :
      hl \in BOOLEAN, tk \in 0..2 }

InitRace ==
  /\ fs \in RaceFS
  /\ pre = fs
  /\ \E p \in RaceNames : args = [p |-> p, t |-> "library", dry |-> FALSE]
  /\ verdict = "none"
  /\ runs = 0
  /\ pc = [i \in Procs |-> 1]
  /\ perr = [i \in Procs |-> "ok"]
  /\ ptype \in [Procs -> PROJECT_TYPES]
  /\ wrote = [i \in Procs |-> FALSE]

RaceStep(i) ==
  /\ perr[i] = "ok"
  /\ pc[i] <= Len(main(args.p, ptype[i]))
  /\ LET o == main(args.p, ptype[i])[pc[i]]
         r == Exec([fs |-> fs, err |-> "ok"], o, args.p, ptype[i], FALSE)
     IN /\ fs' = r.fs
        /\ perr' = [perr EXCEPT ![i] = r.err]
        /\ pc' = [pc EXCEPT ![i] = pc[i] + 1]
        /\ wrote' = [wrote EXCEPT ![i] =
                       wrote[i] \/ (o.op \in {"touch_init", "create_file"} /\ r.fs # fs)]
  /\ UNCHANGED <<pre, args, verdict, runs, ptype>>

NextRace == \E i \in Procs : RaceStep(i)

SpecRace == InitRace /\ [][NextRace]_vars

(* ------------------------- vocabulary of the properties ---------------- *)

(* Python's reserved words. *)
Keywords ==
  { <<"F", "a", "l", "s", "e">>, <<"N", "o", "n", "e">>,
    <<"T", "r", "u", "e">>, <<"a", "n", "d">>, <<"a", "s">>,
    <<"a", "s", "s", "e", "r", "t">>, <<"a", "s", "y", "n", "c">>,
    <<"a", "w", "a", "i", "t">>, <<"b", "r", "e", "a", "k">>,
    <<"c", "l", "a", "s", "s">>, <<"c", "o", "n", "t", "i", "n", "u", "e">>,
    <<"d", "e", "f">>, <<"d", "e", "l">>, <<"e", "l", "i", "f">>,
    <<"e", "l", "s", "e">>, <<"e", "x", "c", "e", "p", "t">>,
    <<"f", "i", "n", "a", "l", "l", "y">>, <<"f", "o", "r">>,
    <<"f", "r", "o", "m">>, <<"g", "l", "o", "b", "a", "l">>, <<"i", "f">>,
    <<"i", "m", "p", "o", "r", "t">>, <<"i", "n">>, <<"i", "s">>,
    <<"l", "a", "m", "b", "d", "a">>,
    <<"n", "o", "n", "l", "o", "c", "a", "l">>, <<"n", "o", "t">>,
    <<"o", "r">>, <<"p", "a", "s", "s">>, <<"r", "a", "i", "s", "e">>,
    <<"r", "e", "t", "u", "r", "n">>, <<"t", "r", "y">>,
    <<"w", "h", "i", "l", "e">>, <<"w", "i", "t", "h">>,
    <<"y", "i", "e", "l", "d">> }

(* The identifier rule of the specification: letters, digits, underscore;  *)
(* not starting with a digit; not a reserved word.                         *)
IdentifierRule(s) == isidentifier(s) /\ s \notin Keywords

Ran == runs > 0

RealRun == Ran /\ ~args.dry

(* The last run created or rewrote the file at path. *)
Created(path) == Exists(fs, path) /\ (Exists(pre, path) => fs[path] # pre[path])

Under(f, dir) == {q \in DOMAIN f : IsPrefix(dir, q)}

SubPackages(t) ==
  {CoreName} \cup (IF t \in {"cli", "service"} THEN {AppName} ELSE {})
             \cup (IF t = "service" THEN {InfraName} ELSE {})

LayoutDirs(p, t) == {SrcPkg(p)} \cup {SrcPkg(p) \o <<d>> : d \in SubPackages(t)}

LayoutSeeds(p, t) ==
  CASE t = "library" -> {SrcPkg(p) \o <<CoreName, ApiPy>>}
    [] t = "cli" -> {SrcPkg(p) \o <<MainDunderPy>>, SrcPkg(p) \o <<AppName, CliPy>>}
    [] t = "service" -> {SrcPkg(p) \o <<AppName, MainPy>>,
                         SrcPkg(p) \o <<InfraName, HealthcheckPy>>}

(* The table of section 4 of the specification for package p of type t. *)
HasExactLayout(f, p, t) ==
  /\ Under(f, SrcPkg(p)) =
        LayoutDirs(p, t) \cup {d \o <<InitPy>> : d \in LayoutDirs(p, t)}
                        \cup LayoutSeeds(p, t)
  /\ \A d \in LayoutDirs(p, t) : f[d] = DirNode /\ f[d \o <<InitPy>>] = FileNode(<<>>)
  /\ \A q \in LayoutSeeds(p, t) : f[q].kind = "file"

(* The seed files of a run for (p, t), in creation order. *)
SeedSequence(p, t) ==
  [i \in 1..Len(create_type_specific_files(SrcPkg(p), t, p)) |->
     create_type_specific_files(SrcPkg(p), t, p)[i].path]

(* Replace the value of the first name assignment only. *)
SubstFirst(lines, new_name) ==
  [i \in 1..Len(lines) |->
     IF lines[i].key = "name" /\ \A j \in 1..(i - 1) : lines[j].key # "name"
     THEN Ln("name", new_name) ELSE lines[i]]

(* ------------------------- properties ---------------------------------- *)

(* C1: a real run for a valid identifier p and type t, started where       *)
(* src/<p> does not exist, succeeds and leaves exactly the layout of t     *)
(* under src/<p>.                                                          *)
C1_ExactLayout ==
  (RealRun /\ IdentifierRule(args.p) /\ ~Exists(pre, SrcPkg(args.p)))
    => (verdict = "ok" /\ HasExactLayout(fs, args.p, args.t))

(* C2: a dry run leaves the filesystem exactly as it found it, whether it  *)
(* succeeds or fails.                                                      *)
C2_DryRunPureObserver == (Ran /\ args.dry) => fs = pre

C2_Witness ==
  /\ Ran /\ args.dry /\ verdict = "ok"
  /\ Exists(pre, PyprojectPath) /\ Exists(pre, LegacySrc)
  /\ Exists(pre, LegacyTest) /\ ~Exists(pre, TestsRoot \o <<UnitName>>)

(* C3: a run started where src/<p> exists fails with AlreadyExists and     *)
(* changes nothing in the filesystem.                                      *)
C3_RefusesExistingTarget ==
  (Ran /\ Exists(pre, SrcPkg(args.p))) => (verdict = "AlreadyExists" /\ fs = pre)

(* a second real run for a package that an earlier run of the model made *)
C3_Witness ==
  /\ runs = 2 /\ ~args.dry /\ verdict = "AlreadyExists"
  /\ Exists(pre, SrcPkg(args.p) \o <<CoreName, InitPy>>)
  /\ Exists(pre, PyprojectPath)

(* C4: a name that fails the identifier rule makes the run fail with       *)
(* InvalidName and changes nothing, whatever the filesystem; a name that   *)
(* satisfies the rule never fails with InvalidName.                        *)
C4_NameValidation ==
  Ran => /\ ~IdentifierRule(args.p) => (verdict = "InvalidName" /\ fs = pre)
         /\ IdentifierRule(args.p) => verdict # "InvalidName"

(* C5 as stated: a real run started with one of its seed files pre-created *)
(* fails with RefuseOverwrite, the file keeps its content and no later     *)
(* seed file is created.                                                   *)
C5_RefuseOverwriteOnPreCreated ==
  RealRun =>
    \A k \in 1..Len(SeedSequence(args.p, args.t)) :
      Exists(pre, SeedSequence(args.p, args.t)[k]) =>
        /\ verdict = "RefuseOverwrite"
        /\ fs[SeedSequence(args.p, args.t)[k]] = pre[SeedSequence(args.p, args.t)[k]]
        /\ \A j \in (k + 1)..Len(SeedSequence(args.p, args.t)) :
             ~Created(SeedSequence(args.p, args.t)[j])

(* C5 amended: a real run started with one of its seed files pre-created   *)
(* fails with AlreadyExists (the file's package directory exists), the     *)
(* file keeps its content and no later seed file is created.               *)
C5_PreCreatedSeedIsRefused ==
  RealRun =>
    \A k \in 1..Len(SeedSequence(args.p, args.t)) :
      Exists(pre, SeedSequence(args.p, args.t)[k]) =>
        /\ verdict = "AlreadyExists"
        /\ fs[SeedSequence(args.p, args.t)[k]] = pre[SeedSequence(args.p, args.t)[k]]
        /\ \A j \in (k + 1)..Len(SeedSequence(args.p, args.t)) :
             ~Created(SeedSequence(args.p, args.t)[j])

(* the first seed file of a cli run was there before the run *)
C5_Witness ==
  /\ RealRun /\ args.t = "cli" /\ verdict = "AlreadyExists"
  /\ Exists(pre, SeedSequence(args.p, args.t)[1])
  /\ pre[SeedSequence(args.p, args.t)[1]] = FileNode(PreText)

(* C6: a successful real run with the configuration file present replaces  *)
(* the value of the first name assignment by the hyphenated package name   *)
(* and leaves every other line, later name assignments included, as it     *)
(* was.                                                                    *)
C6_SingleSubstitution ==
  (RealRun /\ verdict = "ok" /\ Exists(pre, PyprojectPath))
    => /\ Exists(fs, PyprojectPath)
       /\ fs[PyprojectPath].text =
            SubstFirst(pre[PyprojectPath].text, replace_underscores(args.p))

(* C7: from the same filesystem and with the same name and type, the dry   *)
(* run and the real run end with the same verdict.                         *)
C7_DryRunSameVerdict ==
  Ran => verdict = materialize(pre, args.p, args.t, ~args.dry).err

(* a dry run reports success where the real run succeeds and writes *)
C7_Witness ==
  /\ Ran /\ args.dry /\ verdict = "ok"
  /\ materialize(pre, args.p, args.t, FALSE).fs # pre
  /\ Exists(materialize(pre, args.p, args.t, FALSE).fs, SrcPkg(args.p))

(* C8: after a successful real run neither placeholder exists (nothing is  *)
(* left below src/template_project), and a real run for a valid name whose *)
(* target is absent succeeds with or without the placeholders.             *)
C8_LegacyCleanup ==
  /\ (RealRun /\ verdict = "ok")
       => (Under(fs, LegacySrc) = {} /\ ~Exists(fs, LegacyTest))
  /\ (RealRun /\ IdentifierRule(args.p) /\ ~Exists(pre, SrcPkg(args.p)))
       => verdict = "ok"

C8_Witness ==
  /\ RealRun /\ verdict = "ok"
  /\ Exists(pre, LegacySrc \o <<InitPy>>) /\ Exists(pre, LegacyTest)
  /\ Exists(fs, SrcPkg(args.p))

(* C9 as stated: after a successful real run tests/ holds a directory for  *)
(* each sub-package of src/<p> (directly or below tests/<p>) and one       *)
(* smoke-test file.                                                        *)
C9_MirroredTests ==
  (RealRun /\ verdict = "ok")
    => /\ IsDir(fs, TestsRoot)
       /\ \E base \in {TestsRoot, TestsRoot \o <<args.p>>} :
            \A d \in SubPackages(args.t) : IsDir(fs, base \o <<d>>)
       /\ \E q \in Under(fs, TestsRoot) : fs[q].kind = "file"

(* C9 amended: after a successful real run tests/ exists and holds the     *)
(* directories unit and integration, the same for every project type; the  *)
(* run adds nothing else below tests/ (no sub-package directory, no        *)
(* smoke-test file).                                                       *)
C9_TestTypeDirs ==
  (RealRun /\ verdict = "ok")
    => /\ IsDir(fs, TestsRoot)
       /\ IsDir(fs, TestsRoot \o <<UnitName>>)
       /\ IsDir(fs, TestsRoot \o <<IntegrationName>>)
       /\ Under(fs, TestsRoot) =
            (Under(pre, TestsRoot) \ {LegacyTest})
              \cup {TestsRoot, TestsRoot \o <<UnitName>>,
                    TestsRoot \o <<IntegrationName>>}

C9_Witness ==
  /\ RealRun /\ verdict = "ok" /\ args.t = "service"
  /\ ~Exists(pre, TestsRoot)
  /\ IsDir(fs, SrcPkg(args.p) \o <<InfraName>>)

(* C10: nothing orders two concurrent runs for the same name: a process    *)
(* that makes its existence check while src/<p> is absent passes, wherever *)
(* the other process is, also when that one has already passed its own     *)
(* check and is about to create src/<p>.                                   *)
C10_CheckPassesInsideWindow ==
  [][\A i \in Procs :
       (pc[i] = 1 /\ pc'[i] = 2 /\ ~Exists(fs, SrcPkg(args.p)))
         => perr'[i] = "ok"]_vars

(* both processes passed the check and both have written below src/<p> *)
C10_Witness ==
  /\ \A i \in Procs : pc[i] > 1 /\ perr[i] # "AlreadyExists" /\ wrote[i]
  /\ Exists(fs, SrcPkg(args.p))

====
